---- MODULE Spec2Model ----
(***************************************************************************)
(* Model of examples/sed.py: a linear script that resolves the directory   *)
(* of the test grid, constructs a Grid, looks up two stellar SEDs and adds *)
(* them.  The script's own statements are translated line by line; the     *)
(* Grid and Sed classes it calls (synthesizer.grid, synthesizer.sed) are   *)
(* modelled from their documented contract.                                *)
(***************************************************************************)
EXTENDS Bags, FiniteSets, Integers, Sequences, TLC

\* ---- bounds of the environment the script runs in ----
MaxAge == 7     \* largest number of age points of a grid on disk
MaxMet == 7     \* largest number of metallicity points of a grid on disk
MaxLam == 2     \* number of distinct wavelength axes a grid may carry

VARIABLES
  pc,           \* line of the script about to run, "done" or "failed"
  file,         \* __file__: where the script lives
  disk,         \* the file system: the one directory that may hold grids
  script_path, grid_name, grid_dir, grid, sed1, sed2, sed,  \* script names
  err,          \* the exception that left the script, if any
  trace,        \* library calls made so far, in order
  stdout        \* what the run has emitted

vars == <<pc, file, disk, script_path, grid_name, grid_dir, grid,
          sed1, sed2, sed, err, trace, stdout>>

\* ---- values ----
Unbound == [kind |-> "Unbound"]
Str(s) == [kind |-> "str", s |-> s]
Path(p) == [kind |-> "path", parts |-> p]
Error(type, op) == [kind |-> "Error", type |-> type, op |-> op]
Call(op, args) == [op |-> op, args |-> args]

\* the places the script may be run from
ScriptFiles == {<<"repo", "examples", "sed.py">>, <<"tmp", "sed.py">>}
\* the directory of the repository that holds the test grid
TestGridDir == <<"repo", "tests", "test_grid">>
GridFileNames == {"test_grid", "other_grid"}

\* ---- os.path ----
\* os.path.dirname: drop the last component
dirname(p) == SubSeq(p, 1, Len(p) - 1)

RECURSIVE normpath(_)
\* os.path.abspath on an absolute path: collapse "x/.." pairs
normpath(p) ==
  IF \E i \in 1..(Len(p) - 1) : p[i] # ".." /\ p[i + 1] = ".."
  THEN LET i == CHOOSE j \in 1..(Len(p) - 1) : p[j] # ".." /\ p[j + 1] = ".."
       IN normpath(SubSeq(p, 1, i - 1) \o SubSeq(p, i + 2, Len(p)))
  ELSE p

abspath(p) == normpath(p)

\* ---- synthesizer.grid.Grid ----
\* Grid(grid_name, grid_dir=grid_dir): open the grid file of that name in
\* that directory; raises when the directory or the file is missing
Grid(name, dir, d) ==
  IF normpath(dir.parts) = d.dir /\ name.s \in d.files
  THEN [kind |-> "Grid", grid_name |-> name.s, grid_dir |-> dir.parts,
        na |-> d.na, nZ |-> d.nZ, lam |-> d.lam]
  ELSE Error("OSError", Call("Grid", <<name.s>>))

InRange(g, ia, iZ) == ia \in 0..(g.na - 1) /\ iZ \in 0..(g.nZ - 1)

\* grid.get_sed(ia, iZ): the stellar SED stored at grid point (ia, iZ); its
\* spectrum is kept as the formal sum (a bag) of grid-point spectra
get_sed(g, ia, iZ) ==
  IF g.kind # "Grid" THEN Error("AttributeError", Call("get_sed", <<ia, iZ>>))
  ELSE IF InRange(g, ia, iZ)
  THEN [kind |-> "Sed", lam |-> g.lam, lnu |-> SetToBag({<<ia, iZ>>})]
  ELSE Error("IndexError", Call("get_sed", <<ia, iZ>>))

\* ---- synthesizer.sed.Sed ----
\* Sed.__add__: a new Sed whose spectrum is the sum of the two spectra;
\* operands that are not Seds on one wavelength axis are rejected
add(a, b) ==
  IF a.kind # "Sed" \/ b.kind # "Sed" THEN Error("TypeError", Call("add", <<>>))
  ELSE IF a.lam # b.lam THEN Error("ValueError", Call("add", <<>>))
  ELSE [kind |-> "Sed", lam |-> a.lam, lnu |-> a.lnu (+) b.lnu]

\* ---- the script ----
Sed1Coords == <<5, 5>>     \* grid.get_sed(5, 5)
\* variant: the second lookup repeats the first grid point
Sed2Coords_Same == <<5, 5>>
Sed2Coords == <<3, 5>>     \* grid.get_sed(3, 5)
GridName == "test_grid"
\* variant: the relative path misses the tests directory
GridDirSuffix_NoTests == <<"..", "test_grid">>
GridDirSuffix == <<"..", "tests", "test_grid">>

Init ==
  /\ pc = "L12"
  /\ file \in ScriptFiles
  /\ disk \in [dir : {TestGridDir}, files : SUBSET GridFileNames,
               na : 1..MaxAge, nZ : 1..MaxMet, lam : 1..MaxLam]
  /\ script_path = Unbound /\ grid_name = Unbound /\ grid_dir = Unbound
  /\ grid = Unbound /\ sed1 = Unbound /\ sed2 = Unbound /\ sed = Unbound
  /\ err = Unbound
  /\ trace = <<>>
  /\ stdout = <<>>

\* script_path = os.path.abspath(os.path.dirname(__file__))
ResolvePath ==
  /\ pc = "L12"
  /\ script_path' = Path(abspath(dirname(file)))
  /\ pc' = "L15"
  /\ UNCHANGED <<file, disk, grid_name, grid_dir, grid, sed1, sed2, sed,
                 err, trace, stdout>>

\* grid_name = "test_grid"
SetGridName ==
  /\ pc = "L15"
  /\ grid_name' = Str(GridName)
  /\ pc' = "L16"
  /\ UNCHANGED <<file, disk, script_path, grid_dir, grid, sed1, sed2, sed,
                 err, trace, stdout>>

\* grid_dir = script_path + "/../tests/test_grid/"
SetGridDir ==
  /\ pc = "L16"
  /\ grid_dir' = Path(script_path.parts \o GridDirSuffix)
  /\ pc' = "L17"
  /\ UNCHANGED <<file, disk, script_path, grid_name, grid, sed1, sed2, sed,
                 err, trace, stdout>>

\* variant: a failed construction is swallowed and the script goes on
MakeGrid_Swallow ==
  /\ pc = "L17"
  /\ LET r == Grid(grid_name, grid_dir, disk) IN
       /\ trace' = Append(trace, Call("Grid", <<grid_name.s>>))
       /\ IF r.kind = "Error"
          THEN /\ pc' = "L19" /\ UNCHANGED <<grid, err>>
          ELSE /\ grid' = r /\ pc' = "L19" /\ UNCHANGED err
  /\ UNCHANGED <<file, disk, script_path, grid_name, grid_dir, sed1, sed2,
                 sed, stdout>>

\* variant: a failed construction restarts the script
MakeGrid_Retry ==
  /\ pc = "L17"
  /\ LET r == Grid(grid_name, grid_dir, disk) IN
       IF r.kind = "Error"
       THEN /\ pc' = "L12" /\ UNCHANGED <<grid, err, trace>>
       ELSE /\ grid' = r /\ pc' = "L19" /\ UNCHANGED err
            /\ trace' = Append(trace, Call("Grid", <<grid_name.s>>))
  /\ UNCHANGED <<file, disk, script_path, grid_name, grid_dir, sed1, sed2,
                 sed, stdout>>

\* grid = Grid(grid_name, grid_dir=grid_dir)
MakeGrid ==
  /\ pc = "L17"
  /\ LET r == Grid(grid_name, grid_dir, disk) IN
       /\ trace' = Append(trace, Call("Grid", <<grid_name.s>>))
       /\ IF r.kind = "Error"
          THEN /\ err' = r /\ pc' = "failed" /\ UNCHANGED grid
          ELSE /\ grid' = r /\ pc' = "L19" /\ UNCHANGED err
  /\ UNCHANGED <<file, disk, script_path, grid_name, grid_dir, sed1, sed2,
                 sed, stdout>>

\* variant: an index error of the first lookup is caught and sed1 is taken
\* from the nearest grid point instead
GetSed1_Clamp ==
  /\ pc = "L19"
  /\ LET r == get_sed(grid, Sed1Coords[1], Sed1Coords[2])
         q == get_sed(grid, IF Sed1Coords[1] < grid.na THEN Sed1Coords[1]
                            ELSE grid.na - 1,
                      IF Sed1Coords[2] < grid.nZ THEN Sed1Coords[2]
                      ELSE grid.nZ - 1) IN
       /\ trace' = Append(trace, Call("get_sed", Sed1Coords))
       /\ sed1' = IF r.kind = "Error" THEN q ELSE r
       /\ pc' = "L21" /\ UNCHANGED err
  /\ UNCHANGED <<file, disk, script_path, grid_name, grid_dir, grid, sed2,
                 sed, stdout>>

\* variant: the first lookup is bound to the name grid
GetSed1_Rebind ==
  /\ pc = "L19"
  /\ LET r == get_sed(grid, Sed1Coords[1], Sed1Coords[2]) IN
       /\ trace' = Append(trace, Call("get_sed", Sed1Coords))
       /\ IF r.kind = "Error"
          THEN /\ err' = r /\ pc' = "failed" /\ UNCHANGED grid
          ELSE /\ grid' = r /\ pc' = "L21" /\ UNCHANGED err
  /\ UNCHANGED <<file, disk, script_path, grid_name, grid_dir, sed1, sed2,
                 sed, stdout>>

\* sed1 = grid.get_sed(5, 5)
GetSed1 ==
  /\ pc = "L19"
  /\ LET r == get_sed(grid, Sed1Coords[1], Sed1Coords[2]) IN
       /\ trace' = Append(trace, Call("get_sed", Sed1Coords))
       /\ IF r.kind = "Error"
          THEN /\ err' = r /\ pc' = "failed" /\ UNCHANGED sed1
          ELSE /\ sed1' = r /\ pc' = "L21" /\ UNCHANGED err
  /\ UNCHANGED <<file, disk, script_path, grid_name, grid_dir, grid, sed2,
                 sed, stdout>>

\* variant: the addition line runs in place of the second lookup
GetSed2_Late ==
  /\ pc = "L21"
  /\ LET r == add(sed1, sed1) IN
       /\ trace' = Append(trace, Call("add", <<>>))
       /\ IF r.kind = "Error"
          THEN /\ err' = r /\ pc' = "failed" /\ UNCHANGED sed
          ELSE /\ sed' = r /\ pc' = "done" /\ UNCHANGED err
  /\ UNCHANGED <<file, disk, script_path, grid_name, grid_dir, grid, sed1,
                 sed2, stdout>>

\* sed2 = grid.get_sed(3, 5)
GetSed2 ==
  /\ pc = "L21"
  /\ LET r == get_sed(grid, Sed2Coords[1], Sed2Coords[2]) IN
       /\ trace' = Append(trace, Call("get_sed", Sed2Coords))
       /\ IF r.kind = "Error"
          THEN /\ err' = r /\ pc' = "failed" /\ UNCHANGED sed2
          ELSE /\ sed2' = r /\ pc' = "L24" /\ UNCHANGED err
  /\ UNCHANGED <<file, disk, script_path, grid_name, grid_dir, grid, sed1,
                 sed, stdout>>

\* variant: the grid itself is used as the second operand
AddSeds_Grid ==
  /\ pc = "L24"
  /\ LET r == add(sed1, grid) IN
       /\ trace' = Append(trace, Call("add", <<>>))
       /\ IF r.kind = "Error"
          THEN /\ err' = r /\ pc' = "failed" /\ UNCHANGED sed
          ELSE /\ sed' = r /\ pc' = "done" /\ UNCHANGED err
  /\ UNCHANGED <<file, disk, script_path, grid_name, grid_dir, grid, sed1,
                 sed2, stdout>>

\* variant: the combined SED is printed
AddSeds_Print ==
  /\ pc = "L24"
  /\ LET r == add(sed1, sed2) IN
       /\ trace' = Append(trace, Call("add", <<>>))
       /\ IF r.kind = "Error"
          THEN /\ err' = r /\ pc' = "failed" /\ UNCHANGED <<sed, stdout>>
          ELSE /\ sed' = r /\ pc' = "done" /\ UNCHANGED err
               /\ stdout' = Append(stdout, r)
  /\ UNCHANGED <<file, disk, script_path, grid_name, grid_dir, grid, sed1,
                 sed2>>

\* sed = sed1 + sed2
AddSeds ==
  /\ pc = "L24"
  /\ LET r == add(sed1, sed2) IN
       /\ trace' = Append(trace, Call("add", <<>>))
       /\ IF r.kind = "Error"
          THEN /\ err' = r /\ pc' = "failed" /\ UNCHANGED sed
          ELSE /\ sed' = r /\ pc' = "done" /\ UNCHANGED err
  /\ UNCHANGED <<file, disk, script_path, grid_name, grid_dir, grid, sed1,
                 sed2, stdout>>

Next ==
  \/ ResolvePath
  \/ SetGridName
  \/ SetGridDir
  \/ MakeGrid
  \/ GetSed1
  \/ GetSed2
  \/ AddSeds

Spec == Init /\ [][Next]_vars

\* the interpreter runs the next statement as long as there is one
FairSpec == Spec /\ WF_vars(Next)

TypeOK ==
  /\ pc \in {"L12", "L15", "L16", "L17", "L19", "L21", "L24", "done", "failed"}
  /\ grid.kind \in {"Unbound", "Grid"}
  /\ sed1.kind \in {"Unbound", "Sed"}
  /\ sed2.kind \in {"Unbound", "Sed"}
  /\ sed.kind \in {"Unbound", "Sed"}
  /\ err.kind \in {"Unbound", "Error"}

\* ---- properties ----
\* the directory the script resolves holds a grid file named test_grid
ValidGridDir ==
  /\ normpath(dirname(file) \o <<"..", "tests", "test_grid">>) = disk.dir
  /\ "test_grid" \in disk.files

\* the grid on disk has the grid points (5, 5) and (3, 5)
HasBothPoints == disk.na > 5 /\ disk.nZ > 5

BothLookupsReturn ==
  /\ err = Unbound
  /\ Len(trace) >= 2 => sed1.kind = "Sed"
  /\ Len(trace) >= 3 => sed2.kind = "Sed"

\* C1 as stated: given a valid grid directory containing test_grid, both
\* get_sed(5, 5) and get_sed(3, 5) return a Sed and neither raises
C1_ValidDirLookupsReturn == ValidGridDir => BothLookupsReturn

\* C1 amended: given a valid grid directory containing test_grid whose grid
\* has the points (5, 5) and (3, 5), both lookups return a Sed and neither
\* raises
C1_ValidDirAndPointsLookupsReturn ==
  (ValidGridDir /\ HasBothPoints) => BothLookupsReturn

C1_Witness ==
  /\ ValidGridDir /\ HasBothPoints
  /\ pc = "L24" /\ sed1.kind = "Sed" /\ sed2.kind = "Sed"

\* C2: once both lookups have returned Sed objects, the addition succeeds and
\* the script ends with sed bound to a Sed
C2_AdditionSucceeds ==
  (sed1.kind = "Sed" /\ sed2.kind = "Sed" /\ pc \in {"done", "failed"})
    => (pc = "done" /\ sed.kind = "Sed" /\ err = Unbound)

C2_Witness == pc = "done" /\ sed.kind = "Sed" /\ Len(trace) = 4

\* C3: a lookup at an index pair outside the grid (negative or beyond its
\* dimensions) fails with an index-range error and returns no Sed; when
\* (5, 5) or (3, 5) is not a point of the grid the script's lookup there fails
C3_OutOfRangeLookupFails ==
  grid.kind = "Grid" =>
    /\ \A ia \in (-2)..(MaxAge + 1), iZ \in (-2)..(MaxMet + 1) :
         ~InRange(grid, ia, iZ) =>
           get_sed(grid, ia, iZ) = Error("IndexError", Call("get_sed", <<ia, iZ>>))
    /\ (~InRange(grid, 5, 5) /\ Len(trace) >= 2) =>
         /\ pc = "failed" /\ sed1 = Unbound
         /\ err = Error("IndexError", Call("get_sed", <<5, 5>>))
    /\ (~InRange(grid, 3, 5) /\ Len(trace) >= 3) =>
         /\ pc = "failed" /\ sed2 = Unbound
         /\ err = Error("IndexError", Call("get_sed", <<3, 5>>))

C3_Witness ==
  /\ grid.kind = "Grid" /\ ~InRange(grid, 5, 5)
  /\ pc = "failed" /\ err.type = "IndexError" /\ Len(trace) = 2

\* what the library answers to the k-th call of the run
Answer(k) ==
  CASE trace[k].op = "Grid" -> Grid(grid_name, grid_dir, disk)
    [] trace[k].op = "get_sed" -> get_sed(grid, trace[k].args[1], trace[k].args[2])
    [] trace[k].op = "add" -> add(sed1, sed2)

\* C4: an error raised by the Grid construction, a lookup or the addition
\* leaves the script unchanged, no later step runs and sed is never bound
C4_ErrorsPropagate ==
  /\ \A k \in 1..Len(trace) :
       Answer(k).kind = "Error" =>
         /\ err = Answer(k)
         /\ k = Len(trace)
         /\ pc = "failed"
         /\ sed = Unbound
         /\ k <= 1 => grid = Unbound
         /\ k <= 2 => sed1 = Unbound
         /\ k <= 3 => sed2 = Unbound
  /\ (err # Unbound \/ pc = "failed") =>
       Len(trace) >= 1 /\ Answer(Len(trace)).kind = "Error"

C4_Witness ==
  pc = "failed" /\ err.type = "OSError" /\ Len(trace) = 1 /\ sed = Unbound

\* the calls of a complete run, in order
CallOrder ==
  << Call("Grid", <<"test_grid">>), Call("get_sed", <<5, 5>>),
     Call("get_sed", <<3, 5>>), Call("add", <<>>) >>

\* C5: the Grid is constructed, then get_sed(5, 5), then get_sed(3, 5), then
\* the addition, each once; no lookup precedes the Grid and the addition
\* never precedes the return of both lookups
C5_SequentialOrder ==
  /\ Len(trace) <= Len(CallOrder)
  /\ \A k \in 1..Len(trace) : trace[k] = CallOrder[k]
  /\ Len(trace) >= 2 => grid.kind = "Grid"
  /\ Len(trace) >= 4 => (sed1.kind = "Sed" /\ sed2.kind = "Sed")
  /\ Len(trace) < 1 => grid = Unbound
  /\ Len(trace) < 4 => sed = Unbound

C5_Witness == trace = CallOrder /\ pc = "done"

\* the grid a fresh construction yields from the script's location
FreshGrid ==
  Grid(Str("test_grid"),
       Path(abspath(dirname(file)) \o <<"..", "tests", "test_grid">>), disk)

\* C6: the Grid is constructed once and never changes afterwards, and the
\* result of get_sed(3, 5) is the one a grid never queried before gives
C6_GridReadOnly ==
  [][ /\ grid.kind = "Grid" => grid' = grid
      /\ Cardinality({k \in 1..Len(trace') : trace'[k].op = "Grid"}) <= 1
      /\ sed2'.kind = "Sed" => sed2' = get_sed(FreshGrid, 3, 5) ]_vars

C6_Witness ==
  /\ grid = FreshGrid /\ grid.kind = "Grid"
  /\ sed1.kind = "Sed" /\ sed2 = get_sed(FreshGrid, 3, 5)

\* C7: no run, successful or failed, emits or persists anything
C7_NoOutput ==
  /\ stdout = <<>>
  /\ [][stdout' = <<>> /\ disk' = disk /\ file' = file]_vars

C7_Witness == pc = "done" /\ sed.kind = "Sed" /\ stdout = <<>>

C9_Sed2AtFiveFive ==
  sed2.kind = "Sed" => (sed2 = get_sed(grid, 5, 5) /\ sed2 = sed1)

\* position of a line in the script
Rank(l) ==
  CASE l = "L12" -> 1 [] l = "L15" -> 2 [] l = "L16" -> 3 [] l = "L17" -> 4
    [] l = "L19" -> 5 [] l = "L21" -> 6 [] l = "L24" -> 7
    [] l \in {"done", "failed"} -> 8

\* C10: every run ends, either completed with sed the sum of sed1 and sed2
\* or failed with the error of the first step that failed, and no step is
\* repeated
C10_Terminates ==
  /\ <>(pc \in {"done", "failed"})
  /\ [](pc = "done" =>
          /\ err = Unbound
          /\ sed.kind = "Sed" /\ sed = add(sed1, sed2)
          /\ sed.lnu = sed1.lnu (+) sed2.lnu)
  /\ [](pc = "failed" =>
          /\ sed = Unbound /\ err.kind = "Error"
          /\ err = Answer(Len(trace))
          /\ \A k \in 1..(Len(trace) - 1) : Answer(k).kind # "Error")
  /\ [][Rank(pc') > Rank(pc)]_vars

C10_Witness ==
  /\ pc = "done" /\ sed = add(sed1, sed2)
  /\ sed.lnu = SetToBag({<<5, 5>>}) (+) SetToBag({<<3, 5>>})
====
